---- MODULE Spec2Model ----
(***************************************************************************)
(* Model of rtb_utils/crypto_price.py: the DoubleClick price codec.        *)
(*                                                                         *)
(* Byte strings (Python 2 str) are sequences of integers 0..255; a token   *)
(* is a sequence of ASCII codes.  A call that can raise returns a record   *)
(* [err, msg, val]: err = "ok" and val the returned value, or err the      *)
(* exception type, msg its message and val = <<>>.                         *)
(***************************************************************************)
EXTENDS Integers, Sequences, FiniteSets, TLC

IV_SIZE == 16
CIPHERTEXT_SIZE == 8
SIGNATURE_SIZE == 4
BLOCK_SIZE == 20

\* Bounds of the model.
NumKeys == 2
NumIVs == 2
NumPrices == 3
MaxExtra == 2
MaxBufLen == 3

Min(a, b) == IF a < b THEN a ELSE b

Ok(v) == [err |-> "ok", msg |-> "", val |-> v]
Raise(e, m) == [err |-> e, msg |-> m, val |-> <<>>]

\* Python slice s[a:b] for 0 <= a, 0 <= b: clipped to the length of s.
Slice(s, a, b) ==
  LET lo == Min(a, Len(s))
      hi == Min(b, Len(s))
  IN [k \in 1..(hi - lo) |-> s[lo + k]]

\* len(s) of a Python str
len(s) == Len(s)

----------------------------------------------------------------------------
\* split_encoded_price: the three fixed-length slices of the decoded frame.
split_encoded_price(s) ==
  [iv  |-> Slice(s, 0, IV_SIZE),
   pad |-> Slice(s, IV_SIZE, IV_SIZE + CIPHERTEXT_SIZE),
   sig |-> Slice(s, IV_SIZE + CIPHERTEXT_SIZE,
                    IV_SIZE + CIPHERTEXT_SIZE + SIGNATURE_SIZE)]

(***************************************************************************)
(* my_hmac: hmac.new(k, d, hashlib.sha1).digest().  HMAC-SHA1 is a library *)
(* primitive; it is modelled as a deterministic function of (key, message) *)
(* that yields BLOCK_SIZE bytes and depends on every byte and on the       *)
(* length of both arguments.  Nothing below relies on its values.          *)
(***************************************************************************)
HashMod == 65521

\* One step of the loop over the bytes of s.
AbsorbStep(acc, s, i) == (acc * 31 + s[i] + 1) % HashMod

\* The loop over s[lo..hi], left to right: the left half first, then the
\* right half from the state the left half ends in.  The test on `left`
\* (always true) has the left half evaluated before the right half starts,
\* which keeps the evaluation shallow; the loops below are written alike.
RECURSIVE Absorb(_, _, _, _)
Absorb(acc, s, lo, hi) ==
  IF lo > hi THEN acc
  ELSE IF lo = hi THEN AbsorbStep(acc, s, lo)
  ELSE LET mid == (lo + hi) \div 2
           left == Absorb(acc, s, lo, mid)
       IN IF left >= 0 THEN Absorb(left, s, mid + 1, hi) ELSE left

my_hmac(k, d) ==
  LET inner == Absorb(17 + Len(k), k, 1, Len(k))
      state == Absorb((inner * 31 + Len(d)) % HashMod, d, 1, Len(d))
  IN [j \in 1..BLOCK_SIZE |-> ((state * (2 * j + 1) + 7 * j) % HashMod) % 256]

----------------------------------------------------------------------------
\* Transport codec.

PAD == 61      \* '='
PLUS == 43     \* '+'
SLASH == 47    \* '/'
MINUS == 45    \* '-'
UNDER == 95    \* '_'

\* padding with the two pad lengths exchanged
padding_swapped(s) ==
  IF len(s) % 4 = 2 THEN s \o <<PAD>>
  ELSE IF len(s) % 4 = 3 THEN s \o <<PAD, PAD>>
  ELSE s

\* padding(s): restore the '=' characters from len(s) % 4.
padding(s) ==
  IF len(s) % 4 = 2 THEN s \o <<PAD, PAD>>
  ELSE IF len(s) % 4 = 3 THEN s \o <<PAD>>
  ELSE s

\* str.replace(a, b) for single characters
replace(s, a, b) == [k \in 1..Len(s) |-> IF s[k] = a THEN b ELSE s[k]]

\* str.rstrip(c) for a single character
RECURSIVE rstrip(_, _)
rstrip(s, c) ==
  IF Len(s) > 0 /\ s[Len(s)] = c THEN rstrip(SubSeq(s, 1, Len(s) - 1), c)
  ELSE s

unWebSafeAndPad(s) == replace(replace(padding(s), MINUS, PLUS), UNDER, SLASH)

webSafeAndUnPad(s) == rstrip(replace(replace(s, PLUS, MINUS), SLASH, UNDER), PAD)

\* binascii's tables of the standard alphabet; -1 marks a character that
\* is not in it, '=' has the entry 0.
table_a2b_base64(c) ==
  IF c >= 65 /\ c <= 90 THEN c - 65
  ELSE IF c >= 97 /\ c <= 122 THEN c - 71
  ELSE IF c >= 48 /\ c <= 57 THEN c + 4
  ELSE IF c = PLUS THEN 62
  ELSE IF c = SLASH THEN 63
  ELSE IF c = PAD THEN 0
  ELSE -1

table_b2a_base64(v) ==
  IF v < 26 THEN 65 + v
  ELSE IF v < 52 THEN 71 + v
  ELSE IF v < 62 THEN v - 4
  ELSE IF v = 62 THEN PLUS
  ELSE SLASH

\* One pass of the loop of binascii.b2a_base64 over the byte bin[i]:
\* shift it in, emit a character for every 6 bits that are ready.
b2a_step(st, bin, i) ==
  LET lc == st.leftchar * 256 + bin[i]
      lb == st.leftbits + 8
  IN IF lb >= 12
     THEN [leftchar |-> lc % (2 ^ (lb - 12)),
           leftbits |-> lb - 12,
           out |-> st.out \o <<table_b2a_base64(lc \div (2 ^ (lb - 6))),
                               table_b2a_base64((lc \div (2 ^ (lb - 12))) % 64)>>]
     ELSE [leftchar |-> lc % (2 ^ (lb - 6)),
           leftbits |-> lb - 6,
           out |-> Append(st.out, table_b2a_base64(lc \div (2 ^ (lb - 6))))]

\* The loop over bin[lo..hi], left to right: the left half first, then the
\* right half from the state the left half ends in.
RECURSIVE b2a_loop(_, _, _, _)
b2a_loop(st, bin, lo, hi) ==
  IF lo > hi THEN st
  ELSE IF lo = hi THEN b2a_step(st, bin, lo)
  ELSE LET mid == (lo + hi) \div 2
           left == b2a_loop(st, bin, lo, mid)
       IN IF left.leftbits >= 0 THEN b2a_loop(left, bin, mid + 1, hi) ELSE left

\* binascii.b2a_base64 without its trailing newline (b64encode strips it).
b2a_base64(bin) ==
  LET st == b2a_loop([leftchar |-> 0, leftbits |-> 0, out |-> <<>>], bin, 1, Len(bin))
  IN IF st.leftbits = 2
     THEN st.out \o <<table_b2a_base64((st.leftchar % 4) * 16), PAD, PAD>>
     ELSE IF st.leftbits = 4
     THEN st.out \o <<table_b2a_base64((st.leftchar % 16) * 4), PAD>>
     ELSE st.out

\* base64.urlsafe_b64encode: standard encoding, then '+' -> '-', '/' -> '_'.
urlsafe_b64encode(s) ==
  replace(replace(b2a_base64(s), PLUS, MINUS), SLASH, UNDER)

\* binascii_find_valid(s, slen, 1) called at position i (a '='): the next
\* character of the alphabet ('=' included) after position i, or -1.
find_valid(ascii, i) ==
  LET valid == {j \in (i + 1)..Len(ascii) :
                  ascii[j] <= 127 /\ table_a2b_base64(ascii[j]) # -1}
  IN IF valid = {} THEN -1
     ELSE ascii[CHOOSE j \in valid : \A k \in valid : j <= k]

\* One pass of the loop of binascii.a2b_base64 over the character ascii[i]:
\* a character outside the alphabet is skipped, a pad sequence ends the
\* input (done), any other character shifts 6 bits in.
a2b_step(st, ascii, i) ==
  IF st.done THEN st
  ELSE LET c == ascii[i] IN
       IF c > 127 \/ table_a2b_base64(c) = -1 THEN st
       ELSE IF c = PAD
       THEN IF st.quad_pos < 2 \/ (st.quad_pos = 2 /\ find_valid(ascii, i) # PAD)
            THEN st
            ELSE [st EXCEPT !.leftbits = 0, !.done = TRUE]
       ELSE LET lc == st.leftchar * 64 + table_a2b_base64(c)
                lb == st.leftbits + 6
            IN IF lb >= 8
               THEN [quad_pos |-> (st.quad_pos + 1) % 4,
                     leftchar |-> lc % (2 ^ (lb - 8)),
                     leftbits |-> lb - 8,
                     out |-> Append(st.out, lc \div (2 ^ (lb - 8))),
                     done |-> FALSE]
               ELSE [quad_pos |-> (st.quad_pos + 1) % 4,
                     leftchar |-> lc,
                     leftbits |-> lb,
                     out |-> st.out,
                     done |-> FALSE]

\* The loop over ascii[lo..hi], left to right: the left half first, then
\* the right half from the state the left half ends in.
RECURSIVE a2b_loop(_, _, _, _)
a2b_loop(st, ascii, lo, hi) ==
  IF lo > hi THEN st
  ELSE IF lo = hi THEN a2b_step(st, ascii, lo)
  ELSE LET mid == (lo + hi) \div 2
           left == a2b_loop(st, ascii, lo, mid)
       IN IF left.leftbits >= 0 THEN a2b_loop(left, ascii, mid + 1, hi) ELSE left

\* binascii.a2b_base64, as base64.b64decode calls it: leftover bits are
\* "Incorrect padding", which b64decode raises as TypeError.
a2b_base64(ascii) ==
  LET st == a2b_loop([quad_pos |-> 0, leftchar |-> 0, leftbits |-> 0,
                      out |-> <<>>, done |-> FALSE], ascii, 1, Len(ascii))
  IN IF st.leftbits # 0 THEN Raise("TypeError", "Incorrect padding")
     ELSE Ok(st.out)

\* base64.urlsafe_b64decode: '-' -> '+', '_' -> '/', then the standard decoder.
urlsafe_b64decode(s) ==
  a2b_base64(replace(replace(s, MINUS, PLUS), UNDER, SLASH))

websafe_base64_decode(s) == urlsafe_b64decode(padding(s))

websafe_base64_encode(s) == webSafeAndUnPad(urlsafe_b64encode(s))

----------------------------------------------------------------------------
\* Cipher core.

\* bit k of a ^ b
xorbit(a, b, k) == (((a \div (2 ^ k)) % 2) + ((b \div (2 ^ k)) % 2)) % 2

\* ord(a) ^ ord(b) on two bytes
bxor(a, b) ==
  xorbit(a, b, 0) + 2 * xorbit(a, b, 1) + 4 * xorbit(a, b, 2)
    + 8 * xorbit(a, b, 3) + 16 * xorbit(a, b, 4) + 32 * xorbit(a, b, 5)
    + 64 * xorbit(a, b, 6) + 128 * xorbit(a, b, 7)

\* sxor that adds the characters modulo 256 instead of XORing them
sxor_add(s1, s2, length) ==
  IF Len(s1) < length \/ Len(s2) < length
  THEN Raise("IndexError", "string index out of range")
  ELSE Ok([i \in 1..length |-> (s1[i] + s2[i]) % 256])

\* sxor: XOR of the first `length` characters; s1[i] or s2[i] past the end
\* raises IndexError.
sxor(s1, s2, length) ==
  IF Len(s1) < length \/ Len(s2) < length
  THEN Raise("IndexError", "string index out of range")
  ELSE Ok([i \in 1..length |-> bxor(s1[i], s2[i])])

\* decrypt without the comparison of the signatures
decrypt_nosig(encoded_price, e_key, i_key) ==
  LET enc_price == websafe_base64_decode(encoded_price) IN
  IF enc_price.err # "ok" THEN enc_price
  ELSE
  LET parts == split_encoded_price(enc_price.val)
      ciphertext_size == len(enc_price.val) - IV_SIZE - SIGNATURE_SIZE
  IN
  IF ~(ciphertext_size > 0) THEN Raise("AssertionError", "")
  ELSE sxor(parts.pad, my_hmac(e_key, parts.iv), CIPHERTEXT_SIZE)

\* decrypt without the assertion on ciphertext_size
decrypt_nosize(encoded_price, e_key, i_key) ==
  LET enc_price == websafe_base64_decode(encoded_price) IN
  IF enc_price.err # "ok" THEN enc_price
  ELSE
  LET parts == split_encoded_price(enc_price.val)
      price_pad == my_hmac(e_key, parts.iv)
      price == sxor(parts.pad, price_pad, CIPHERTEXT_SIZE)
  IN
  IF price.err # "ok" THEN price
  ELSE
  LET conf_sig == Slice(my_hmac(i_key, price.val \o parts.iv), 0, SIGNATURE_SIZE)
  IN
  IF ~(conf_sig = parts.sig) THEN Raise("AssertionError", "Signature not match")
  ELSE Ok(price.val)

decrypt(encoded_price, e_key, i_key) ==
  LET enc_price == websafe_base64_decode(encoded_price) IN
  IF enc_price.err # "ok" THEN enc_price
  ELSE
  LET parts == split_encoded_price(enc_price.val)
      ciphertext_size == len(enc_price.val) - IV_SIZE - SIGNATURE_SIZE
  IN
  IF ~(ciphertext_size > 0) THEN Raise("AssertionError", "")
  ELSE
  LET price_pad == my_hmac(e_key, parts.iv)
      price == sxor(parts.pad, price_pad, CIPHERTEXT_SIZE)
  IN
  IF price.err # "ok" THEN price
  ELSE
  LET conf_sig == Slice(my_hmac(i_key, price.val \o parts.iv), 0, SIGNATURE_SIZE)
  IN
  IF ~(conf_sig = parts.sig) THEN Raise("AssertionError", "Signature not match")
  ELSE Ok(price.val)

\* A Python int below 2^64 is kept as four 16-bit limbs, most significant
\* first.
Limb == 65536
Zero64 == <<0, 0, 0, 0>>

\* n * 16 + d on limbs
MulAdd16(n, d) ==
  LET t4 == n[4] * 16 + d
      t3 == (n[3] * 16) + (t4 \div Limb)
      t2 == (n[2] * 16) + (t3 \div Limb)
      t1 == (n[1] * 16) + (t2 \div Limb)
  IN <<t1 % Limb, t2 % Limb, t3 % Limb, t4 % Limb>>

\* one byte as two lower-case hexadecimal digits
hexdigit(n) == IF n < 10 THEN 48 + n ELSE 87 + n

\* str.encode('hex'): two digits for every byte
encode_hex(s) ==
  [k \in 1..(2 * Len(s)) |->
     IF k % 2 = 1 THEN hexdigit(s[(k + 1) \div 2] \div 16)
     ELSE hexdigit(s[k \div 2] % 16)]

\* value of one digit of int(s, 16)
digitval(c) == IF c >= 97 THEN c - 87 ELSE IF c >= 65 THEN c - 55 ELSE c - 48

\* int(s, 16): the digits s[lo..hi] shifted in from the left, split in halves.
RECURSIVE int16(_, _, _, _)
int16(acc, s, lo, hi) ==
  IF lo > hi THEN acc
  ELSE IF lo = hi THEN MulAdd16(acc, digitval(s[lo]))
  ELSE LET mid == (lo + hi) \div 2
           left == int16(acc, s, lo, mid)
       IN IF left[4] >= 0 THEN int16(left, s, mid + 1, hi) ELSE left

\* decrypt_price that hands the two keys to decrypt in the wrong order
decrypt_price_swapped(encoded_price, e_key, i_key) ==
  LET decode_bytes == decrypt(encoded_price, i_key, e_key) IN
  IF decode_bytes.err # "ok" THEN decode_bytes
  ELSE Ok(int16(Zero64, encode_hex(decode_bytes.val), 1, 2 * Len(decode_bytes.val)))

decrypt_price(encoded_price, e_key, i_key) ==
  LET decode_bytes == decrypt(encoded_price, e_key, i_key) IN
  IF decode_bytes.err # "ok" THEN decode_bytes
  ELSE Ok(int16(Zero64, encode_hex(decode_bytes.val), 1, 2 * Len(decode_bytes.val)))

\* encrypt without the assertion on the length of the final message
encrypt_noassert(price, e_key, i_key, iv) ==
  LET pad == Slice(my_hmac(e_key, iv), 0, BLOCK_SIZE)
      enc_price == sxor(pad, price, CIPHERTEXT_SIZE)
  IN
  IF enc_price.err # "ok" THEN enc_price
  ELSE
  LET sig == Slice(my_hmac(i_key, price \o iv), 0, SIGNATURE_SIZE) IN
  Ok(websafe_base64_encode(iv \o enc_price.val \o sig))

encrypt(price, e_key, i_key, iv) ==
  LET pad == Slice(my_hmac(e_key, iv), 0, BLOCK_SIZE)
      enc_price == sxor(pad, price, CIPHERTEXT_SIZE)
  IN
  IF enc_price.err # "ok" THEN enc_price
  ELSE
  LET sig == Slice(my_hmac(i_key, price \o iv), 0, SIGNATURE_SIZE) IN
  IF ~(len(iv \o enc_price.val \o sig) = 28)
  THEN Raise("AssertionError", "Length of final message not match")
  ELSE Ok(websafe_base64_encode(iv \o enc_price.val \o sig))

----------------------------------------------------------------------------
\* Inputs of the calls.

KeyOf(n) == [k \in 1..(6 + n) |-> (n * 53 + k * 17) % 256]

\* IvOf(1, 16) is sixteen zero bytes.
IvOf(n, length) == [k \in 1..length |-> ((n - 1) * (k * 29 + 7)) % 256]

\* PriceOf(1, 8) is 1000000 and PriceOf(2, 8) is 2^64 - 1, big-endian.
PriceOf(n, length) ==
  [k \in 1..length |->
     IF n = 1 THEN (IF k = length THEN 64
                    ELSE IF k = length - 1 THEN 66
                    ELSE IF k = length - 2 THEN 15 ELSE 0)
     ELSE IF n = 2 THEN 255
     ELSE (n * 71 + k * 37) % 256]

Keys == {KeyOf(n) : n \in 1..NumKeys}

IVs == {IvOf(n, IV_SIZE) : n \in 1..NumIVs}
         \cup {IvOf(2, IV_SIZE - 1), IvOf(2, IV_SIZE + 1)}

Prices == {PriceOf(n, CIPHERTEXT_SIZE) : n \in 1..NumPrices}
            \cup {PriceOf(1, CIPHERTEXT_SIZE - 1), PriceOf(2, CIPHERTEXT_SIZE + 1)}

ByteSamples == {0, 251, 255}

Buffers ==
  UNION {[1..n -> ByteSamples] : n \in 0..MaxBufLen}
    \cup {IvOf(2, 28), PriceOf(2, 28)}

\* The token with one bit of one character flipped.
FlipBit(t, pos, bit) == [t EXCEPT ![pos] = bxor(t[pos], 2 ^ bit)]

\* The token written in the standard alphabet ('+', '/').
StdAlphabet(t) == replace(replace(t, MINUS, PLUS), UNDER, SLASH)

\* The token with the character c put in front of position pos.
InsertAt(t, pos, c) == SubSeq(t, 1, pos - 1) \o <<c>> \o SubSeq(t, pos, Len(t))

\* Every single-bit flip of the token t.
BitFlips(t) == {FlipBit(t, pos, bit) : pos \in 1..Len(t), bit \in 0..7}

\* The token t, t in the standard alphabet, and the encodings of every
\* shortened and of some lengthened frames.
Reframed(t) ==
  LET frame == websafe_base64_decode(t).val IN
  {t, StdAlphabet(t)}
    \cup {websafe_base64_encode(Slice(frame, 0, n)) : n \in 0..(Len(frame) - 1)}
    \cup {websafe_base64_encode(frame \o IvOf(2, m)) : m \in 1..MaxExtra}

\* Calls of decrypt_price, given the token t that encrypt(price, e_key,
\* i_key, iv) returned: the bit flips of t with the keys of the encryption,
\* the other tokens with every pair of keys.
DecryptCalls(t, e_key, i_key) ==
  (BitFlips(t) \X {e_key} \X {i_key}) \cup (Reframed(t) \X Keys \X Keys)

\* Tokens handed to websafe_base64_decode, given the token t that
\* websafe_base64_encode returned for the buffer s.
DecodeInputs(t, s) ==
  {t, StdAlphabet(t), urlsafe_b64encode(s)}
    \cup {InsertAt(t, pos, 33) : pos \in 1..(Len(t) + 1)}
    \cup (IF Len(t) > 0 THEN {SubSeq(t, 1, Len(t) - 1)} ELSE {})

----------------------------------------------------------------------------
\* State: the arguments and the result of one call of encrypt, then of one
\* call of decrypt_price; and of one call of each codec function.

VARIABLES pc, price_in, ekey_in, ikey_in, iv_in, enc_out,
          token_in, dkey_e, dkey_i, dec_out,
          cpc, s_in, tok, tok_in, dec

cipher_vars == <<pc, price_in, ekey_in, ikey_in, iv_in, enc_out,
                 token_in, dkey_e, dkey_i, dec_out>>
codec_vars == <<cpc, s_in, tok, tok_in, dec>>
vars == <<cipher_vars, codec_vars>>

NoResult == [err |-> "none", msg |-> "", val |-> <<>>]

CipherIdle ==
  /\ pc = "idle"
  /\ price_in = <<>> /\ ekey_in = <<>> /\ ikey_in = <<>> /\ iv_in = <<>>
  /\ enc_out = NoResult
  /\ token_in = <<>> /\ dkey_e = <<>> /\ dkey_i = <<>>
  /\ dec_out = NoResult

CodecIdle ==
  /\ cpc = "idle"
  /\ s_in = <<>> /\ tok = <<>> /\ tok_in = <<>>
  /\ dec = NoResult

Init ==
  /\ pc = "start"
  /\ price_in \in Prices
  /\ ekey_in \in Keys
  /\ ikey_in \in Keys
  /\ iv_in \in IVs
  /\ enc_out = NoResult
  /\ token_in = <<>> /\ dkey_e = <<>> /\ dkey_i = <<>>
  /\ dec_out = NoResult
  /\ CodecIdle

\* final_message = encrypt(price, e_key, i_key, iv)
Encrypt ==
  /\ pc = "start"
  /\ enc_out' = encrypt(price_in, ekey_in, ikey_in, iv_in)
  /\ pc' = "encrypted"
  /\ UNCHANGED <<price_in, ekey_in, ikey_in, iv_in,
                 token_in, dkey_e, dkey_i, dec_out>>
  /\ UNCHANGED codec_vars

\* decrypt_price(encoded_price, e_key, i_key) on a token derived from the
\* one encrypt returned.
Decrypt ==
  /\ pc = "encrypted"
  /\ enc_out.err = "ok"
  /\ \E call \in DecryptCalls(enc_out.val, ekey_in, ikey_in) :
       /\ token_in' = call[1]
       /\ dkey_e' = call[2]
       /\ dkey_i' = call[3]
       /\ dec_out' = decrypt_price(call[1], call[2], call[3])
  /\ pc' = "decrypted"
  /\ UNCHANGED <<price_in, ekey_in, ikey_in, iv_in, enc_out>>
  /\ UNCHANGED codec_vars

Next == Encrypt \/ Decrypt

Spec == Init /\ [][Next]_vars

CodecInit ==
  /\ cpc = "start"
  /\ s_in \in Buffers
  /\ tok = <<>> /\ tok_in = <<>>
  /\ dec = NoResult
  /\ CipherIdle

\* tok = websafe_base64_encode(s)
Encode ==
  /\ cpc = "start"
  /\ tok' = websafe_base64_encode(s_in)
  /\ cpc' = "encoded"
  /\ UNCHANGED <<s_in, tok_in, dec>>
  /\ UNCHANGED cipher_vars

\* websafe_base64_decode(s) on a token derived from the one encode returned
Decode ==
  /\ cpc = "encoded"
  /\ \E t \in DecodeInputs(tok, s_in) :
       /\ tok_in' = t
       /\ dec' = websafe_base64_decode(t)
  /\ cpc' = "decoded"
  /\ UNCHANGED <<s_in, tok>>
  /\ UNCHANGED cipher_vars

CodecNext == Encode \/ Decode

CodecSpec == CodecInit /\ [][CodecNext]_vars

----------------------------------------------------------------------------
\* Vocabulary of the properties.

\* The unsigned integer that eight bytes denote in big-endian order, as limbs.
BigEndian(b) ==
  <<b[1] * 256 + b[2], b[3] * 256 + b[4], b[5] * 256 + b[6], b[7] * 256 + b[8]>>

\* The frame a token decodes to (a result record).
FrameOf(t) == websafe_base64_decode(t)

\* masked[k] XOR HMAC(e_key, iv)[k] over the eight bytes of the price field
Unmask(masked, e_key, iv) ==
  [k \in 1..CIPHERTEXT_SIZE |-> bxor(masked[k], my_hmac(e_key, iv)[k])]

\* the first four bytes of HMAC(i_key, price ++ iv)
Signature(i_key, price, iv) == SubSeq(my_hmac(i_key, price \o iv), 1, SIGNATURE_SIZE)

\* The frame has complete IV and price fields and its signature field is
\* exactly the four-byte signature of its unmasked price under (e_key, i_key).
SignatureMatches(frame, e_key, i_key) ==
  /\ Len(frame) >= IV_SIZE + CIPHERTEXT_SIZE
  /\ LET iv == SubSeq(frame, 1, IV_SIZE)
         masked == SubSeq(frame, IV_SIZE + 1, IV_SIZE + CIPHERTEXT_SIZE)
         sig == SubSeq(frame, IV_SIZE + CIPHERTEXT_SIZE + 1, Min(Len(frame), 28))
     IN /\ Len(sig) = SIGNATURE_SIZE
        /\ sig = Signature(i_key, Unmask(masked, e_key, iv), iv)

UrlSafeChar(c) ==
  \/ c >= 65 /\ c <= 90
  \/ c >= 97 /\ c <= 122
  \/ c >= 48 /\ c <= 57
  \/ c = MINUS
  \/ c = UNDER

IsPowerOfTwo(n) == \E b \in 0..7 : n = 2 ^ b

\* u is t with exactly one bit of one character flipped
IsSingleBitFlip(t, u) ==
  /\ Len(t) = Len(u)
  /\ \E pos \in 1..Len(t) :
       /\ IsPowerOfTwo(bxor(t[pos], u[pos]))
       /\ \A k \in 1..Len(t) : k # pos => t[k] = u[k]

ValidEncryptInput == Len(iv_in) = IV_SIZE /\ Len(price_in) = CIPHERTEXT_SIZE

SameCall == token_in = enc_out.val /\ dkey_e = ekey_in /\ dkey_i = ikey_in

----------------------------------------------------------------------------
\* C1: for a 16-byte iv and an 8-byte price, encrypt succeeds, and
\* decrypt_price of the returned token with the same two keys succeeds and
\* returns the integer that the eight price bytes denote in big-endian order.
RoundTrip ==
  /\ (pc = "encrypted" /\ ValidEncryptInput) => enc_out.err = "ok"
  /\ (pc = "decrypted" /\ ValidEncryptInput /\ SameCall)
       => dec_out = Ok(BigEndian(price_in))

RoundTripWitness ==
  /\ pc = "decrypted" /\ ValidEncryptInput /\ SameCall
  /\ ekey_in # ikey_in
  /\ price_in = PriceOf(1, CIPHERTEXT_SIZE)
  /\ dec_out = Ok(<<0, 0, 15, 16960>>)

\* C2: decrypt_price returns a price exactly when the token decodes and the
\* frame's signature field equals, over exactly 4 bytes, the first 4 bytes of
\* HMAC(i_key, unmasked price ++ iv); a frame with complete IV and price
\* fields whose signature field differs (or is shorter) fails the signature
\* assertion.
IntegrityVerified ==
  pc = "decrypted" =>
    LET d == FrameOf(token_in) IN
    /\ dec_out.err = "ok" <=> (d.err = "ok" /\ SignatureMatches(d.val, dkey_e, dkey_i))
    /\ (d.err = "ok" /\ Len(d.val) >= IV_SIZE + CIPHERTEXT_SIZE
          /\ ~SignatureMatches(d.val, dkey_e, dkey_i))
         => dec_out = Raise("AssertionError", "Signature not match")

IntegrityWitness ==
  /\ pc = "decrypted"
  /\ token_in = enc_out.val
  /\ dkey_e = ekey_in /\ dkey_i # ikey_in
  /\ Len(FrameOf(token_in).val) = 28
  /\ dec_out = Raise("AssertionError", "Signature not match")

\* C3 (as claimed): a token whose decoded length is not 28 never yields a price.
ExactFrameLength ==
  (pc = "decrypted" /\ FrameOf(token_in).err = "ok" /\ Len(FrameOf(token_in).val) # 28)
    => dec_out.err # "ok"

\* C4 (as claimed): encrypt fails whenever iv is not 16 bytes long and
\* whenever the price is longer than 8 bytes.
EncryptValidatesInput ==
  (pc = "encrypted" /\ (Len(iv_in) # IV_SIZE \/ Len(price_in) > CIPHERTEXT_SIZE))
    => enc_out.err # "ok"

\* C5: every token encrypt returns decodes to exactly 28 bytes; when
\* iv ++ masked price ++ signature is not 28 bytes long, the length assertion
\* fails and no token is returned.
FixedLength ==
  pc \in {"encrypted", "decrypted"} =>
    /\ enc_out.err = "ok" =>
         (FrameOf(enc_out.val).err = "ok" /\ Len(FrameOf(enc_out.val).val) = 28)
    /\ (Len(price_in) >= CIPHERTEXT_SIZE
          /\ Len(iv_in) + CIPHERTEXT_SIZE + SIGNATURE_SIZE # 28)
         => enc_out = Raise("AssertionError", "Length of final message not match")

FixedLengthWitness ==
  /\ pc = "encrypted"
  /\ Len(price_in) = CIPHERTEXT_SIZE
  /\ Len(iv_in) = IV_SIZE + 1
  /\ enc_out.err = "AssertionError"

\* C6: for a 16-byte iv and an 8-byte price the encoded frame is
\* iv ++ (price XOR HMAC(e_key, iv))[0..7] ++ HMAC(i_key, price ++ iv)[0..3].
FrameContents ==
  (pc = "encrypted" /\ ValidEncryptInput) =>
    /\ enc_out.err = "ok"
    /\ FrameOf(enc_out.val)
         = Ok(iv_in \o Unmask(price_in, ekey_in, iv_in)
                    \o Signature(ikey_in, price_in, iv_in))

FrameContentsWitness ==
  /\ pc = "encrypted" /\ ValidEncryptInput
  /\ ekey_in # ikey_in
  /\ enc_out.err = "ok"
  /\ Len(enc_out.val) = 38

\* C7: websafe_base64_decode(websafe_base64_encode(b)) = b; the token has no
\* '+', '/' or '=', and padding() turns it back into the padded encoding.
CodecRoundTrip ==
  /\ cpc \in {"encoded", "decoded"} =>
       /\ \A k \in 1..Len(tok) : tok[k] \notin {PLUS, SLASH, PAD}
       /\ padding(tok) = urlsafe_b64encode(s_in)
       /\ Len(padding(tok)) - Len(tok)
            = (IF Len(tok) % 4 = 2 THEN 2 ELSE IF Len(tok) % 4 = 3 THEN 1 ELSE 0)
  /\ (cpc = "decoded" /\ tok_in = tok) => dec = Ok(s_in)

CodecRoundTripWitness ==
  /\ cpc = "decoded" /\ tok_in = tok
  /\ Len(s_in) = 2 /\ Len(tok) = 3
  /\ s_in = <<251, 255>>
  /\ dec = Ok(s_in)

\* C8 (as claimed): a token with a character outside the URL-safe alphabet
\* is rejected by websafe_base64_decode.
InvalidCharsRejected ==
  (cpc = "decoded" /\ \E k \in 1..Len(tok_in) : ~UrlSafeChar(tok_in[k]))
    => dec.err # "ok"

\* C9 (as claimed, whatever the kind of the error): decrypt_price with the
\* same keys fails on every single-bit flip of the token encrypt returned.
TamperDetected ==
  (pc = "decrypted" /\ ValidEncryptInput
     /\ dkey_e = ekey_in /\ dkey_i = ikey_in
     /\ IsSingleBitFlip(enc_out.val, token_in))
    => dec_out.err # "ok"

\* C10: a token that decodes to fewer than 28 bytes makes decrypt raise:
\* the size assertion up to 20 bytes, IndexError in sxor for 21..23 bytes,
\* the signature assertion for 24..27 bytes.
ShortFramesFail ==
  (pc = "decrypted" /\ FrameOf(token_in).err = "ok"
     /\ Len(FrameOf(token_in).val) < 28) =>
    LET n == Len(FrameOf(token_in).val) IN
    /\ n <= 20 => dec_out = Raise("AssertionError", "")
    /\ (n >= 21 /\ n <= 23) => dec_out = Raise("IndexError", "string index out of range")
    /\ n >= 24 => dec_out = Raise("AssertionError", "Signature not match")

ShortFramesWitness ==
  /\ pc = "decrypted"
  /\ FrameOf(token_in).err = "ok"
  /\ Len(FrameOf(token_in).val) = 22
  /\ dec_out.err = "IndexError"

====
